---------------------------- MODULE Spec2Model ----------------------------
(***************************************************************************)
(* The matrix-inversion scripts of GenAI/AutoGen/_data/_code:              *)
(*   inv.py, tmp_code_9387...py and tmp_code_d904...py.                    *)
(*                                                                         *)
(* Each script builds a matrix, calls np.linalg.inv on it and prints.      *)
(* np.linalg.inv works on float64 values: it factors the matrix by LU      *)
(* decomposition with partial pivoting and solves against the identity     *)
(* (LAPACK gesv), and reports "Singular matrix" when a pivot is exactly    *)
(* zero.  The model keeps the float64 arithmetic: every value is a binary  *)
(* floating-point number with a 53-bit significand and every operation     *)
(* rounds to nearest, ties to even.  Exponent overflow, underflow and the  *)
(* sign of zero are not modelled (no value of the model comes near them).  *)
(*                                                                         *)
(* The library functions of the repository, each called once (SpecCalls):  *)
(*   GenAI/AutoGen/_tools/_cmd/kali_tools.py   ping_host, rustscan_host,   *)
(*                                             nmapscan_host               *)
(*   GenAI/LangChain/_examples/_langchain/loaders.py       the loaders     *)
(*   GenAI/LangChain/_examples/splitters.py        rec_char_splitter       *)
(*   GenAI/LangChain/_examples/_langchain/vector_store.py  Init_VS         *)
(*   GenAI/LangChain/_examples/_langchain/tools_usage.py   human_approval  *)
(*   GenAI/OpenAI-agents/_examples/model.py        CustomModelProvider     *)
(*   GenAI/OpenAI-agents/examples/agent_use_cases.py  LocalModelProvider   *)
(* Python's assert statements are executed (the interpreter's default).    *)
(***************************************************************************)
EXTENDS Integers, Sequences, FiniteSets, TLC

(***************************************************************************)
(* Natural numbers of any size: little-endian sequences of limbs below     *)
(* Radix, without a most-significant zero limb (TLC's own integers are 32  *)
(* bits wide, a float64 significand is 53).                                *)
(***************************************************************************)
LimbBits == 15
Radix == 2 ^ LimbBits

RECURSIVE BNNorm(_)
BNNorm(a) ==
    IF a = << >> THEN << >>
    ELSE IF a[Len(a)] = 0 THEN BNNorm(SubSeq(a, 1, Len(a) - 1))
    ELSE a

RECURSIVE BNOfInt(_)
BNOfInt(n) ==
    IF n = 0 THEN << >> ELSE << n % Radix >> \o BNOfInt(n \div Radix)

Limb(a, i) == IF i <= Len(a) THEN a[i] ELSE 0

RECURSIVE BNAddC(_, _, _, _)
BNAddC(a, b, i, c) ==
    IF i > Len(a) /\ i > Len(b)
    THEN IF c = 0 THEN << >> ELSE << c >>
    ELSE << (Limb(a, i) + Limb(b, i) + c) % Radix >>
         \o BNAddC(a, b, i + 1, (Limb(a, i) + Limb(b, i) + c) \div Radix)

BNAdd(a, b) == BNAddC(a, b, 1, 0)

RECURSIVE BNSubC(_, _, _, _)
BNSubC(a, b, i, c) ==
    IF i > Len(a) THEN << >>
    ELSE IF Limb(a, i) - Limb(b, i) - c < 0
    THEN << Limb(a, i) - Limb(b, i) - c + Radix >> \o BNSubC(a, b, i + 1, 1)
    ELSE << Limb(a, i) - Limb(b, i) - c >> \o BNSubC(a, b, i + 1, 0)

\* a - b for a >= b
BNSub(a, b) == BNNorm(BNSubC(a, b, 1, 0))

RECURSIVE BNCmpAt(_, _, _)
BNCmpAt(a, b, i) ==
    IF i = 0 THEN 0
    ELSE IF a[i] < b[i] THEN -1
    ELSE IF a[i] > b[i] THEN 1
    ELSE BNCmpAt(a, b, i - 1)

\* -1, 0, 1 as a < b, a = b, a > b
BNCmp(a, b) ==
    IF Len(a) < Len(b) THEN -1
    ELSE IF Len(a) > Len(b) THEN 1
    ELSE BNCmpAt(a, b, Len(a))

RECURSIVE BNMulSmallC(_, _, _, _)
BNMulSmallC(a, k, i, c) ==
    IF i > Len(a)
    THEN IF c = 0 THEN << >> ELSE << c >>
    ELSE << (a[i] * k + c) % Radix >>
         \o BNMulSmallC(a, k, i + 1, (a[i] * k + c) \div Radix)

\* a * k for 0 <= k < Radix
BNMulSmall(a, k) == IF k = 0 THEN << >> ELSE BNMulSmallC(a, k, 1, 0)

BNTimesRadix(a) == IF a = << >> THEN << >> ELSE << 0 >> \o a

RECURSIVE BNMulAt(_, _, _)
BNMulAt(a, b, j) ==
    IF j > Len(b) THEN << >>
    ELSE BNAdd(BNMulSmall(a, b[j]), BNTimesRadix(BNMulAt(a, b, j + 1)))

BNMul(a, b) == IF a = << >> THEN << >> ELSE BNMulAt(a, b, 1)

RECURSIVE BNDivSmallC(_, _, _, _)
BNDivSmallC(a, k, i, r) ==
    IF i = 0 THEN << >>
    ELSE BNDivSmallC(a, k, i - 1, (r * Radix + a[i]) % k)
         \o << (r * Radix + a[i]) \div k >>

\* floor(a / k) for 0 < k <= Radix
BNDivSmall(a, k) == BNNorm(BNDivSmallC(a, k, Len(a), 0))

Zeros(n) == [i \in 1..n |-> 0]

\* a * 2^k
BNShl(a, k) ==
    IF a = << >> THEN << >>
    ELSE Zeros(k \div LimbBits) \o BNMulSmall(a, 2 ^ (k % LimbBits))

\* floor(a / 2^k)
BNShr(a, k) ==
    IF k \div LimbBits >= Len(a) THEN << >>
    ELSE BNDivSmall(SubSeq(a, (k \div LimbBits) + 1, Len(a)), 2 ^ (k % LimbBits))

RECURSIVE BitLenSmall(_)
BitLenSmall(n) == IF n = 0 THEN 0 ELSE 1 + BitLenSmall(n \div 2)

BitLen(a) ==
    IF a = << >> THEN 0
    ELSE LimbBits * (Len(a) - 1) + BitLenSmall(a[Len(a)])

BNOdd(a) == a # << >> /\ a[1] % 2 = 1

(***************************************************************************)
(* floor(r * 2^k / d) + q * 2^k for r < d, and whether the division left a *)
(* remainder, by binary long division: st.r is the running remainder and   *)
(* st.q the quotient so far.                                               *)
(***************************************************************************)
BNDivStepAt(r2, q2, d) ==
    IF BNCmp(r2, d) >= 0
    THEN [r |-> BNSub(r2, d), q |-> BNAdd(q2, << 1 >>)]
    ELSE [r |-> r2, q |-> q2]

BNDivStep(st, d) == BNDivStepAt(BNAdd(st.r, st.r), BNAdd(st.q, st.q), d)

RECURSIVE BNDivBits(_, _, _)
BNDivBits(st, d, k) ==
    IF k = 0 THEN [quot |-> st.q, inexact |-> st.r # << >>]
    ELSE IF st.r = << >> THEN [quot |-> BNShl(st.q, k), inexact |-> FALSE]
    ELSE BNDivBits(BNDivStep(st, d), d, k - 1)

(***************************************************************************)
(* Exact binary numbers: [neg, m, e] is (-1)^neg * m * 2^e, m a natural    *)
(* number of any size.  A float64 is such a number whose m has exactly     *)
(* Prec bits, or zero, written [neg |-> FALSE, m |-> << >>, e |-> 0].      *)
(***************************************************************************)
Prec == 53

XZero == [neg |-> FALSE, m |-> << >>, e |-> 0]

XIsZero(x) == x.m = << >>

XNeg(x) == IF XIsZero(x) THEN x ELSE [x EXCEPT !.neg = ~x.neg]

XAbs(x) == [x EXCEPT !.neg = FALSE]

XMul(x, y) ==
    IF XIsZero(x) \/ XIsZero(y) THEN XZero
    ELSE [neg |-> x.neg # y.neg, m |-> BNMul(x.m, y.m), e |-> x.e + y.e]

\* a * 2^e0 and b * 2^e0 with signs na and nb, c = BNCmp(a, b)
XAddAligned(na, a, nb, b, c, e0) ==
    IF na = nb THEN [neg |-> na, m |-> BNAdd(a, b), e |-> e0]
    ELSE IF c = 0 THEN XZero
    ELSE IF c > 0 THEN [neg |-> na, m |-> BNSub(a, b), e |-> e0]
    ELSE [neg |-> nb, m |-> BNSub(b, a), e |-> e0]

XAddAt(x, y, a, b, e0) == XAddAligned(x.neg, a, y.neg, b, BNCmp(a, b), e0)

XAddTo(x, y, e0) == XAddAt(x, y, BNShl(x.m, x.e - e0), BNShl(y.m, y.e - e0), e0)

XAdd(x, y) ==
    IF XIsZero(x) THEN y
    ELSE IF XIsZero(y) THEN x
    ELSE XAddTo(x, y, IF x.e < y.e THEN x.e ELSE y.e)

XSub(x, y) == XAdd(x, XNeg(y))

\* -1, 0, 1 as x < y, x = y, x > y
XSign(x) == IF XIsZero(x) THEN 0 ELSE IF x.neg THEN -1 ELSE 1

XCmp(x, y) == XSign(XSub(x, y))

XLeq(x, y) == XCmp(x, y) <= 0

\* the integer n as an exact number
XOfInt(n) ==
    IF n = 0 THEN XZero
    ELSE [neg |-> n < 0, m |-> BNOfInt(IF n < 0 THEN -n ELSE n), e |-> 0]

(***************************************************************************)
(* Rounding to float64, to nearest and ties to even: the value is          *)
(* (-1)^neg * (m + t) * 2^e with 0 < t < 1 when sticky, t = 0 otherwise.   *)
(***************************************************************************)
\* the rounded significand q1 may have grown to Prec + 1 bits (a power of two)
RoundCarry(neg, q1, e) ==
    IF BitLen(q1) > Prec
    THEN [neg |-> neg, m |-> BNShr(q1, 1), e |-> e + 1]
    ELSE [neg |-> neg, m |-> q1, e |-> e]

\* q the kept bits, c the cut-off bits compared with half a unit of q
RoundUp(q, c, sticky) ==
    IF c > 0 \/ (c = 0 /\ (sticky \/ BNOdd(q))) THEN BNAdd(q, << 1 >>) ELSE q

\* cut the s low bits of m
RoundCut(neg, m, e, sticky, s, q) ==
    RoundCarry(neg,
               RoundUp(q, BNCmp(BNSub(m, BNShl(q, s)), BNShl(<< 1 >>, s - 1)), sticky),
               e + s)

RoundLen(neg, m, e, sticky, len) ==
    IF len <= Prec
    THEN [neg |-> neg, m |-> BNShl(m, Prec - len), e |-> e - (Prec - len)]
    ELSE RoundCut(neg, m, e, sticky, len - Prec, BNShr(m, len - Prec))

Round(neg, m, e, sticky) ==
    IF m = << >> THEN XZero ELSE RoundLen(neg, m, e, sticky, BitLen(m))

fl(x) == Round(x.neg, x.m, x.e, FALSE)

\* int -> float64 (np.array of Python ints, cast by inv)
FOfInt(n) == fl(XOfInt(n))

FAdd(x, y) == fl(XAdd(x, y))

FSub(x, y) == fl(XSub(x, y))

FMul(x, y) == fl(XMul(x, y))

\* x * y + z rounded once (a fused multiply-add)
FMA(x, y, z) == fl(XAdd(XMul(x, y), z))

\* x / y for floats x and y # 0
FDivRound(neg, d, e) == Round(neg, d.quot, e, d.inexact)

\* both significands have Prec bits, so the first quotient bit is 0 or 1
FDivFirst(x, y, ge) ==
    FDivRound(x.neg # y.neg,
              BNDivBits([r |-> IF ge THEN BNSub(x.m, y.m) ELSE x.m,
                         q |-> IF ge THEN << 1 >> ELSE << >>], y.m, Prec + 2),
              x.e - y.e - (Prec + 2))

FDiv(x, y) ==
    IF XIsZero(x) THEN XZero ELSE FDivFirst(x, y, BNCmp(x.m, y.m) >= 0)

(***************************************************************************)
(* Matrices are sequences of rows, each row a sequence of float64.         *)
(***************************************************************************)
RECURSIVE SeqOf(_, _)
\* the sequence f[1], ..., f[n]
SeqOf(f, n) == IF n = 0 THEN << >> ELSE Append(SeqOf(f, n - 1), f[n])

\* the n x m matrix of the entries f[i][j]
MatrixOf(f, n, m) == SeqOf([i \in 1..n |-> SeqOf(f[i], m)], n)

NRows(a) == Len(a)

NCols(a) == IF a = << >> THEN 0 ELSE Len(a[1])

FOne == FOfInt(1)

\* np.eye(n)
eye(n) == MatrixOf([i \in 1..n |-> [j \in 1..n |-> IF i = j THEN FOne ELSE XZero]], n, n)

\* the int64 array literal cast to float64
AsFloat(a) ==
    MatrixOf([i \in 1..NRows(a) |-> [j \in 1..NCols(a) |-> FOfInt(a[i][j])]],
             NRows(a), NCols(a))

SwapRows(a, k, p) ==
    IF k = p THEN a ELSE [a EXCEPT ![k] = a[p], ![p] = a[k]]

(***************************************************************************)
(* The two places where builds of the LAPACK/BLAS behind np.linalg.inv     *)
(* round differently: the triangular solve divides by the diagonal or      *)
(* multiplies by its reciprocal, and a - l*u is rounded once (fused) or    *)
(* twice.                                                                  *)
(***************************************************************************)
Builds ==
    { [recip |-> FALSE, fused |-> FALSE], [recip |-> TRUE, fused |-> TRUE] }

\* MulSub with the sign of the update wrong: a + l * u
MulSubAdds(a, l, u, bld) ==
    IF bld.fused THEN FMA(l, u, a) ELSE FAdd(a, FMul(l, u))

\* a - l * u
MulSub(a, l, u, bld) ==
    IF bld.fused THEN FMA(XNeg(l), u, a) ELSE FSub(a, FMul(l, u))

\* SolveDiv without the division by the diagonal
SolveDivSkipped(x, d, bld) == x

\* x / d in the triangular solve
SolveDiv(x, d, bld) ==
    IF bld.recip THEN FMul(x, FDiv(FOne, d)) ELSE FDiv(x, d)

\* PivotRow without the search: the diagonal entry is the pivot
PivotRowNone(a, k, i, best) == best

\* the first row i >= k with the largest |a[i][k]| (idamax)
RECURSIVE PivotRow(_, _, _, _)
PivotRow(a, k, i, best) ==
    IF i > NRows(a) THEN best
    ELSE IF XCmp(XAbs(a[i][k]), XAbs(a[best][k])) > 0
    THEN PivotRow(a, k, i + 1, i)
    ELSE PivotRow(a, k, i + 1, best)

(***************************************************************************)
(* getrf: LU factorisation with partial pivoting of the n x n matrix a,    *)
(* the row exchanges applied to b as well.  info = k > 0 when the k-th     *)
(* pivot is exactly zero.                                                  *)
(***************************************************************************)
\* row i > k with multiplier l: the multiplier is stored, the rest updated
EliminateRow(a, i, k, l, bld) ==
    SeqOf([j \in 1..NRows(a) |-> IF j < k THEN a[i][j]
                                  ELSE IF j = k THEN l
                                  ELSE MulSub(a[i][j], l, a[k][j], bld)], NRows(a))

\* r is the reciprocal of the pivot: the column is scaled by it
EliminateBy(a, k, r, bld) ==
    SeqOf([i \in 1..NRows(a) |->
              IF i <= k THEN a[i]
              ELSE EliminateRow(a, i, k, FMul(a[i][k], r), bld)], NRows(a))

Eliminate(a, k, bld) == EliminateBy(a, k, FDiv(FOne, a[k][k]), bld)

RECURSIVE Getrf(_, _, _, _)

\* GetrfPivot without the test for a zero pivot
GetrfPivotUnchecked(a, b, k, p, bld) ==
    Getrf(Eliminate(SwapRows(a, k, p), k, bld), SwapRows(b, k, p), k + 1, bld)

\* step k with pivot row p
GetrfPivot(a, b, k, p, bld) ==
    IF XIsZero(a[p][k]) THEN [info |-> k, lu |-> a, b |-> b]
    ELSE Getrf(Eliminate(SwapRows(a, k, p), k, bld), SwapRows(b, k, p), k + 1, bld)

Getrf(a, b, k, bld) ==
    IF k > NRows(a) THEN [info |-> 0, lu |-> a, b |-> b]
    ELSE GetrfPivot(a, b, k, PivotRow(a, k, k + 1, k), bld)

(***************************************************************************)
(* getrs for one right-hand side x (a column, as a sequence): forward      *)
(* substitution with the unit lower triangle, then back substitution with  *)
(* the upper triangle of lu.                                               *)
(***************************************************************************)
RECURSIVE RowDot(_, _, _, _, _, _)
\* acc - sum over j in from..to of lu[i][j] * x[j], in that order
RowDot(lu, x, i, from, to, bld) ==
    IF from > to THEN x[i]
    ELSE MulSub(RowDot(lu, x, i, from, to - 1, bld), lu[i][to], x[to], bld)

RECURSIVE Forward(_, _, _, _)
Forward(lu, x, i, bld) ==
    IF i > Len(x) THEN x
    ELSE Forward(lu, [x EXCEPT ![i] = RowDot(lu, x, i, 1, i - 1, bld)], i + 1, bld)

RECURSIVE Backward(_, _, _, _)
Backward(lu, x, i, bld) ==
    IF i = 0 THEN x
    ELSE Backward(lu,
             [x EXCEPT ![i] = SolveDiv(RowDot(lu, x, i, i + 1, Len(x), bld),
                                       lu[i][i], bld)],
             i - 1, bld)

Column(b, j) == SeqOf([i \in 1..NRows(b) |-> b[i][j]], NRows(b))

\* the solution for column j of the right-hand side f.b
Getrs(f, j, bld) ==
    Backward(f.lu, Forward(f.lu, Column(f.b, j), 1, bld), NRows(f.lu), bld)

\* Transpose left out: the solutions stay the rows
TransposeSkipped(s, n) == s

Transpose(s, n) == MatrixOf([i \in 1..n |-> [j \in 1..n |-> s[j][i]]], n, n)

\* f the factorisation: nothing is solved once a pivot was zero
GesvSolve(f, n, bld) ==
    IF f.info > 0 THEN [info |-> f.info, x |-> << >>]
    ELSE [info |-> 0, x |-> Transpose(SeqOf([j \in 1..n |-> Getrs(f, j, bld)], n), n)]

\* gesv: solve a * X = eye(n)
Gesv(a, bld) == GesvSolve(Getrf(a, eye(NRows(a)), 1, bld), NRows(a), bld)

(***************************************************************************)
(* Arrays as the scripts hold them: [dtype, a] with a the rows.  An int64  *)
(* array holds TLA+ integers, a float64 array floats; a "str" array stands *)
(* for any non-numeric array (only its shape matters).                     *)
(***************************************************************************)
NoArray == [dtype |-> "none", a |-> << >>]

IntArray(rows) == [dtype |-> "int64", a |-> rows]

FloatArray(rows) == [dtype |-> "float64", a |-> rows]

StrArray(rows) == [dtype |-> "str", a |-> rows]

IsSquare(arr) == \A i \in 1..NRows(arr.a) : Len(arr.a[i]) = NRows(arr.a)

\* the float64 view of a numeric array
ToFloat(arr) == IF arr.dtype = "int64" THEN AsFloat(arr.a) ELSE arr.a

(***************************************************************************)
(* np.linalg.inv(arr) under build bld: the square test comes first, then  *)
(* the cast to float64, then gesv.  Every failure of the first and the     *)
(* last kind is a LinAlgError; a non-numeric array fails with a TypeError. *)
(***************************************************************************)
Raised(exc, msg) == [ok |-> FALSE, exc |-> exc, msg |-> msg, val |-> NoArray]

Returned(val) == [ok |-> TRUE, exc |-> "None", msg |-> "", val |-> val]

\* r the outcome of gesv
InvResult(r) ==
    IF r.info > 0 THEN Raised("LinAlgError", "Singular matrix")
    ELSE Returned(FloatArray(r.x))

np_linalg_inv(arr, bld) ==
    IF ~IsSquare(arr)
    THEN Raised("LinAlgError", "Last 2 dimensions of the array must be square")
    ELSE IF arr.dtype = "str"
    THEN Raised("TypeError", "Cannot cast ufunc 'inv' input")
    ELSE InvResult(Gesv(ToFloat(arr), bld))

\* tmp_code_d904: def calculate_inverse(matrix)
calculate_inverse(matrix, bld) == np_linalg_inv(matrix, bld)

\* MulAdd that drops the sum so far
MulAddOverwrites(a, x, y, bld) == FMul(x, y)

\* a + x * y
MulAdd(a, x, y, bld) ==
    IF bld.fused THEN FMA(x, y, a) ELSE FAdd(a, FMul(x, y))

RECURSIVE DotSum(_, _, _, _, _, _)
DotSum(x, y, i, j, k, bld) ==
    IF k = 0 THEN XZero
    ELSE MulAdd(DotSum(x, y, i, j, k - 1, bld), x[i][k], y[k][j], bld)

\* np.dot(x, y) of two 2-D numeric arrays of matching shapes
MatMul(fx, fy, bld) ==
    MatrixOf([i \in 1..NRows(fx) |->
                 [j \in 1..NCols(fy) |-> DotSum(fx, fy, i, j, NCols(fx), bld)]],
             NRows(fx), NCols(fy))

np_dot(x, y, bld) == FloatArray(MatMul(ToFloat(x), ToFloat(y), bld))

\* np.eye(n) as an array
np_eye(n) == FloatArray(eye(n))

\* the defaults of np.allclose: rtol=1e-05, atol=1e-08, as float64
rtol == FDiv(FOne, FOfInt(10 ^ 5))

atol == FDiv(FOne, FOfInt(10 ^ 8))

\* isclose with the absolute tolerance only
iscloseAbsolute(x, y) == XLeq(XAbs(FSub(x, y)), atol)

\* np.isclose on one pair of finite entries: |x - y| <= atol + rtol * |y|
isclose(x, y) ==
    XLeq(XAbs(FSub(x, y)), FAdd(atol, FMul(rtol, XAbs(y))))

\* np.allclose(x, y) of two float64 arrays of the same shape
np_allclose(x, y) ==
    \A i \in 1..NRows(x.a) : \A j \in 1..NCols(x.a) : isclose(x.a[i][j], y.a[i][j])

(***************************************************************************)
(* The inputs.  Each script assigns one array literal; the comment of      *)
(* inv.py ("Create or read in your 2D matrix (example)") makes the matrix  *)
(* the script's input, so the model runs every script on every input.      *)
(***************************************************************************)
MaxN == 2
MaxEntry == 2
MaxScalar == 6

\* inv.py: matrix
inv_py_matrix == IntArray(<< <<3, -4>>, <<1, 5>> >>)

\* tmp_code_9387: example_matrix
example_matrix == IntArray(<< <<1, 2>>, <<3, 4>> >>)

\* tmp_code_d904: matrix_example
matrix_example == IntArray(<< <<4, 7>>, <<3, 6>> >>)

Literals == { inv_py_matrix, example_matrix, matrix_example }

\* n x n, d on the diagonal and o elsewhere
Uniform(n, d, o) ==
    IntArray(MatrixOf([i \in 1..n |-> [j \in 1..n |-> IF i = j THEN d ELSE o]], n, n))

\* r x c, every entry v
Filled(r, c, v) == MatrixOf([i \in 1..r |-> [j \in 1..c |-> v]], r, c)

Entries == (-MaxEntry)..MaxEntry

SquareInputs ==
    Literals
    \cup { IntArray(<< <<k>> >>) : k \in (-MaxScalar)..MaxScalar }
    \cup { Uniform(n, d, o) : n \in 2..MaxN, d \in Entries, o \in Entries }
    \cup { IntArray(<< <<1, 2>>, <<2, 4>> >>),
           IntArray(<< <<1, 1>>, <<49, 49>> >>),
           IntArray(<< <<1, 2, 3>>, <<4, 5, 6>>, <<7, 8, 9>> >>),
           IntArray(<< <<30000, 30001>>, <<29999, 30000>> >>) }

NonSquareInputs ==
    UNION { { IntArray(Filled(r, c, 1)) : c \in (1..(MaxN + 1)) \ {r} } : r \in 1..MaxN }

NonNumericInputs ==
    { StrArray(Filled(r, c, 0)) : r \in 1..MaxN, c \in 1..MaxN }

Inputs == SquareInputs \cup NonSquareInputs \cup NonNumericInputs

Scripts == { "inv", "tmp_code_9387", "tmp_code_d904" }

NoError == [exc |-> "None", msg |-> ""]

(***************************************************************************)
(* State.                                                                  *)
(*   script          the program that runs                                 *)
(*   bld             the build of the numerics library                     *)
(*   matrix          matrix / example_matrix / matrix_example              *)
(*   pc              the line about to run, "exit" when the run is over    *)
(*   inverse         inv_matrix / inverse_matrix / inverted_result         *)
(*   identity_check, is_identity   tmp_code_9387's verification            *)
(*   err             the exception caught as e, or the one that escaped    *)
(*   out             what was printed to standard output, in order         *)
(*   status          "running", "exited" (normally) or "traceback" (an     *)
(*                   exception escaped the script: exit status 1); of a    *)
(*                   call: "running", "returned" or "raised"               *)
(*   original, calls the first argument and the number of calls, for the   *)
(*                   caller that applies calculate_inverse repeatedly      *)
(***************************************************************************)
VARIABLES script, bld, matrix, pc, inverse, identity_check, is_identity,
          err, out, status, original, calls

(***************************************************************************)
(* State of a call of one of the repository's library functions:           *)
(*   call    the function called and its arguments                         *)
(*   world   what the call finds outside the program: installed binaries,  *)
(*           the outcome of a subprocess or of a library call, the typed   *)
(*           input; and the count of subprocesses started                  *)
(*   ret     the value returned, NoReturn while there is none              *)
(*   self    the fields of the object the call is a method of              *)
(* The exception that escapes the call is err, what it prints is out.      *)
(***************************************************************************)
VARIABLES call, world, ret, self

callvars == << call, world, ret, self >>

vars == << script, bld, matrix, pc, inverse, identity_check, is_identity,
           err, out, status, original, calls, call, world, ret, self >>

NoCall == [fn |-> "none"]

NoWorld == [kind |-> "none"]

NoReturn == [type |-> "NoReturn"]

NoObject == [class |-> "none"]

\* the matrix scripts call none of these functions
NoCalls == call = NoCall /\ world = NoWorld /\ ret = NoReturn /\ self = NoObject

Printed(label, arr) == [label |-> label, arr |-> arr, msg |-> ""]

PrintedMsg(label, msg) == [label |-> label, arr |-> NoArray, msg |-> msg]

FirstLine(s) ==
    IF s = "inv" THEN "L8" ELSE IF s = "tmp_code_9387" THEN "L9" ELSE "L9"

Init ==
    /\ script \in Scripts
    /\ bld \in Builds
    /\ matrix \in Inputs
    /\ pc = FirstLine(script)
    /\ inverse = NoArray
    /\ identity_check = NoArray
    /\ is_identity = "None"
    /\ err = NoError
    /\ out = << >>
    /\ status = "running"
    /\ original = matrix
    /\ calls = 0
    /\ NoCalls

\* an exception no handler catches: the traceback goes to stderr, exit status 1
Uncaught(r) ==
    /\ err' = [exc |-> r.exc, msg |-> r.msg]
    /\ status' = "traceback"
    /\ pc' = "exit"

\* except np.linalg.LinAlgError as e: catches that class only
Caught(r, handler) ==
    /\ err' = [exc |-> r.exc, msg |-> r.msg]
    /\ status' = status
    /\ pc' = handler

Goto(line) == pc' = line /\ status' = status

Exit == pc' = "exit" /\ status' = "exited"

At(s, line) == script = s /\ status = "running" /\ pc = line

\* name = f(...) inside try ... except np.linalg.LinAlgError: r is f's outcome
InTry(r, next, handler) ==
    IF r.ok THEN inverse' = r.val /\ Goto(next) /\ err' = err
    ELSE /\ inverse' = inverse
         /\ IF r.exc = "LinAlgError" THEN Caught(r, handler) ELSE Uncaught(r)

\* name = f(...) outside any try
NoTry(r, next) ==
    IF r.ok THEN inverse' = r.val /\ Goto(next) /\ err' = err
    ELSE inverse' = inverse /\ Uncaught(r)

(***************************************************************************)
(* inv.py                                                                  *)
(***************************************************************************)
\* line 8: inv_matrix = np.linalg.inv(matrix), inside try
inv_L8 ==
    /\ At("inv", "L8")
    /\ InTry(np_linalg_inv(matrix, bld), "L10", "L16")
    /\ UNCHANGED << script, bld, matrix, identity_check, is_identity, out,
                    original, calls >>
    /\ UNCHANGED callvars

\* lines 10-11: print("Original Matrix:"); print(matrix)
inv_L10 ==
    /\ At("inv", "L10")
    /\ out' = Append(out, Printed("Original Matrix:", matrix))
    /\ Goto("L12")
    /\ UNCHANGED << script, bld, matrix, inverse, identity_check, is_identity,
                    err, original, calls >>
    /\ UNCHANGED callvars

\* lines 12-13: print("\nInverse of the Matrix:"); print(inv_matrix)
inv_L12 ==
    /\ At("inv", "L12")
    /\ out' = Append(out, Printed("Inverse of the Matrix:", inverse))
    /\ Exit
    /\ UNCHANGED << script, bld, matrix, inverse, identity_check, is_identity,
                    err, original, calls >>
    /\ UNCHANGED callvars

\* line 16: print(f"Matrix inversion failed: {e}")
inv_L16 ==
    /\ At("inv", "L16")
    /\ out' = Append(out, PrintedMsg("Matrix inversion failed: {e}", err.msg))
    /\ Exit
    /\ UNCHANGED << script, bld, matrix, inverse, identity_check, is_identity,
                    err, original, calls >>
    /\ UNCHANGED callvars

(***************************************************************************)
(* tmp_code_9387                                                           *)
(***************************************************************************)
\* line 9: print(f"Original Matrix:\n{example_matrix}")
t9387_L9 ==
    /\ At("tmp_code_9387", "L9")
    /\ out' = Append(out, Printed("Original Matrix:", matrix))
    /\ Goto("L13")
    /\ UNCHANGED << script, bld, matrix, inverse, identity_check, is_identity,
                    err, original, calls >>
    /\ UNCHANGED callvars

\* line 13: inverse_matrix = np.linalg.inv(example_matrix), inside try
t9387_L13 ==
    /\ At("tmp_code_9387", "L13")
    /\ InTry(np_linalg_inv(matrix, bld), "L14", "L25")
    /\ UNCHANGED << script, bld, matrix, identity_check, is_identity, out,
                    original, calls >>
    /\ UNCHANGED callvars

\* line 14: print(f"\nInverse Matrix:\n{inverse_matrix}")
t9387_L14 ==
    /\ At("tmp_code_9387", "L14")
    /\ out' = Append(out, Printed("Inverse Matrix:", inverse))
    /\ Goto("L18")
    /\ UNCHANGED << script, bld, matrix, inverse, identity_check, is_identity,
                    err, original, calls >>
    /\ UNCHANGED callvars

\* t9387_L18 with the product written into the inverse's storage (out=)
t9387_L18_InPlace ==
    /\ At("tmp_code_9387", "L18")
    /\ identity_check' = np_dot(matrix, inverse, bld)
    /\ inverse' = identity_check'
    /\ Goto("L19")
    /\ UNCHANGED << script, bld, matrix, is_identity, err, out, original, calls >>
    /\ UNCHANGED callvars

\* line 18: identity_check = np.dot(example_matrix, inverse_matrix)
t9387_L18 ==
    /\ At("tmp_code_9387", "L18")
    /\ identity_check' = np_dot(matrix, inverse, bld)
    /\ Goto("L19")
    /\ UNCHANGED << script, bld, matrix, inverse, is_identity, err, out,
                    original, calls >>
    /\ UNCHANGED callvars

\* line 19: print(f"\nVerification (Original * Inverse):\n{identity_check}")
t9387_L19 ==
    /\ At("tmp_code_9387", "L19")
    /\ out' = Append(out, Printed("Verification (Original * Inverse):", identity_check))
    /\ Goto("L21")
    /\ UNCHANGED << script, bld, matrix, inverse, identity_check, is_identity,
                    err, original, calls >>
    /\ UNCHANGED callvars

\* line 21: is_identity = np.allclose(identity_check, np.eye(example_matrix.shape[0]))
t9387_L21 ==
    /\ At("tmp_code_9387", "L21")
    /\ is_identity' = IF np_allclose(identity_check, np_eye(NRows(matrix.a)))
                      THEN "True" ELSE "False"
    /\ Goto("L22")
    /\ UNCHANGED << script, bld, matrix, inverse, identity_check, err, out,
                    original, calls >>
    /\ UNCHANGED callvars

\* line 22: print(f"\nIs the verification result close to the identity matrix? {is_identity}")
t9387_L22 ==
    /\ At("tmp_code_9387", "L22")
    /\ out' = Append(out,
           PrintedMsg("Is the verification result close to the identity matrix? {is_identity}",
                      is_identity))
    /\ Exit
    /\ UNCHANGED << script, bld, matrix, inverse, identity_check, is_identity,
                    err, original, calls >>
    /\ UNCHANGED callvars

\* line 25: print(f"\nError: {e}. The matrix is likely singular and cannot be inverted.")
t9387_L25 ==
    /\ At("tmp_code_9387", "L25")
    /\ out' = Append(out,
           PrintedMsg("Error: {e}. The matrix is likely singular and cannot be inverted.",
                      err.msg))
    /\ Exit
    /\ UNCHANGED << script, bld, matrix, inverse, identity_check, is_identity,
                    err, original, calls >>
    /\ UNCHANGED callvars

(***************************************************************************)
(* tmp_code_d904                                                           *)
(***************************************************************************)
\* line 9: inverted_result = calculate_inverse(matrix_example), no handler
d904_L9 ==
    /\ At("tmp_code_d904", "L9")
    /\ NoTry(calculate_inverse(matrix, bld), "L10")
    /\ UNCHANGED << script, bld, matrix, identity_check, is_identity, out,
                    original, calls >>
    /\ UNCHANGED callvars

\* line 10: print('Inverse of Matrix:\n', inverted_result)
d904_L10 ==
    /\ At("tmp_code_d904", "L10")
    /\ out' = Append(out, Printed("Inverse of Matrix:", inverse))
    /\ Exit
    /\ UNCHANGED << script, bld, matrix, inverse, identity_check, is_identity,
                    err, original, calls >>
    /\ UNCHANGED callvars

Next ==
    \/ inv_L8 \/ inv_L10 \/ inv_L12 \/ inv_L16
    \/ t9387_L9 \/ t9387_L13 \/ t9387_L14 \/ t9387_L18 \/ t9387_L19
    \/ t9387_L21 \/ t9387_L22 \/ t9387_L25
    \/ d904_L9 \/ d904_L10

Spec == Init /\ [][Next]_vars

(***************************************************************************)
(* calculate_inverse as a function of its argument: the caller passes any  *)
(* input in, and may pass a returned array in again (invert(invert(A))).   *)
(* An exception propagates to the caller.                                  *)
(***************************************************************************)
MaxCalls == 2

InitInv ==
    /\ script = "calculate_inverse"
    /\ bld \in Builds
    /\ matrix \in Inputs
    /\ pc = "call"
    /\ inverse = NoArray
    /\ identity_check = NoArray
    /\ is_identity = "None"
    /\ err = NoError
    /\ out = << >>
    /\ status = "running"
    /\ original = matrix
    /\ calls = 0
    /\ NoCalls

\* lines 3-6: return np.linalg.inv(matrix)
InvCall ==
    /\ At("calculate_inverse", "call")
    /\ calls < MaxCalls
    /\ NoTry(calculate_inverse(matrix, bld), "returned")
    /\ calls' = calls + 1
    /\ UNCHANGED << script, bld, matrix, identity_check, is_identity, out, original >>
    /\ UNCHANGED callvars

\* the returned array becomes the next argument
InvAgain ==
    /\ At("calculate_inverse", "returned")
    /\ calls < MaxCalls
    /\ matrix' = inverse
    /\ Goto("call")
    /\ UNCHANGED << script, bld, inverse, identity_check, is_identity, err, out,
                    original, calls >>
    /\ UNCHANGED callvars

NextInv == InvCall \/ InvAgain

SpecInv == InitInv /\ [][NextInv]_vars

(***************************************************************************)
(* The verification step of tmp_code_9387 (lines 18-22) as a function of   *)
(* the two arrays it reads: the original is d times the identity and the   *)
(* inverse handed to it is the true inverse with one entry moved by        *)
(* k / PerturbScale.                                                       *)
(***************************************************************************)
PerturbScale == 10 ^ 9

Perturbations == { 0, 3, -3, 30, -30, 3000, -3000, 20000, -20000 }

\* entry (i, j) of the inverse of d times the identity
ScaledEntry(i, j, d) == IF i = j THEN FDiv(FOne, FOfInt(d)) ELSE XZero

Perturbed(n, d, pi, pj, k) ==
    FloatArray(MatrixOf([i \in 1..n |-> [j \in 1..n |->
        IF i = pi /\ j = pj
        THEN FAdd(ScaledEntry(i, j, d), FDiv(FOfInt(k), FOfInt(PerturbScale)))
        ELSE ScaledEntry(i, j, d)]], n, n))

VerifyInputs ==
    UNION { { [original |-> Uniform(n, d, 0), inverse |-> Perturbed(n, d, pi, pj, k)] :
                d \in 1..MaxEntry, pi \in 1..n, pj \in 1..n, k \in Perturbations } :
            n \in 1..MaxN }

InitVerify ==
    /\ script = "tmp_code_9387"
    /\ bld \in Builds
    /\ \E v \in VerifyInputs :
          /\ matrix = v.original
          /\ inverse = v.inverse
          /\ out = << Printed("Original Matrix:", v.original),
                      Printed("Inverse Matrix:", v.inverse) >>
    /\ pc = "L18"
    /\ identity_check = NoArray
    /\ is_identity = "None"
    /\ err = NoError
    /\ status = "running"
    /\ original = matrix
    /\ calls = 0
    /\ NoCalls

NextVerify == t9387_L18 \/ t9387_L19 \/ t9387_L21 \/ t9387_L22

SpecVerify == InitVerify /\ [][NextVerify]_vars

(***************************************************************************)
(* kali_tools.py.  A text (a str or the bytes a subprocess wrote) is a     *)
(* sequence of pieces, each piece a string; the tests and conversions the  *)
(* code applies work piece by piece.                                       *)
(***************************************************************************)
RECURSIVE LStrip(_)
LStrip(t) == IF t # << >> /\ t[1] \in { " ", "\n" } THEN LStrip(Tail(t)) ELSE t

RECURSIVE RStrip(_)
RStrip(t) ==
    IF t # << >> /\ t[Len(t)] \in { " ", "\n" }
    THEN RStrip(SubSeq(t, 1, Len(t) - 1))
    ELSE t

\* str.strip()
strip(t) == RStrip(LStrip(t))

\* b"..." in t
Contains(t, piece) == \E i \in 1..Len(t) : t[i] = piece

\* the index of the first piece from i on that is `piece`, Len(t) + 1 when none
RECURSIVE IndexFrom(_, _, _)
IndexFrom(t, piece, i) ==
    IF i > Len(t) THEN Len(t) + 1
    ELSE IF t[i] = piece THEN i
    ELSE IndexFrom(t, piece, i + 1)

\* re.findall(r"\[(.*?)\]", t)[0]: the text between the first "[" and the
\* nearest "]" after it; when there is no such pair the list is empty and
\* [0] raises IndexError
FirstBracket(t) ==
    IF IndexFrom(t, "]", IndexFrom(t, "[", 1) + 1) > Len(t)
    THEN [found |-> FALSE, group |-> << >>]
    ELSE [found |-> TRUE,
          group |-> SubSeq(t, IndexFrom(t, "[", 1) + 1,
                           IndexFrom(t, "]", IndexFrom(t, "[", 1) + 1) - 1)]

\* json.dumps of a str: the quotes, with the newlines and quotes inside escaped
EscapePiece(p) == IF p = "\n" THEN "\\n" ELSE IF p = "\"" THEN "\\\"" ELSE p

DumpStr(t) == << "\"" >> \o [i \in 1..Len(t) |-> EscapePiece(t[i])] \o << "\"" >>

\* json.dumps of a dict of strs, from item i on: "key": "value", separated by ", "
RECURSIVE DumpItems(_, _)
DumpItems(items, i) ==
    IF i > Len(items) THEN << >>
    ELSE (IF i > 1 THEN << "," >> ELSE << >>)
         \o DumpStr(<< items[i][1] >>) \o << ":" >> \o DumpStr(items[i][2])
         \o DumpItems(items, i + 1)

Str(t) == [type |-> "str", text |-> t]

None == [type |-> "NoneType"]

json_dumps(items) == Str(<< "{" >> \o DumpItems(items, 1) \o << "}" >>)

\* the outcome of a call: a value returned or an exception to the caller, and
\* the number of subprocesses it started
Return(v, n) == [ret |-> v, exc |-> NoError, spawned |-> n]

Throw(exc, msg, n) == [ret |-> NoReturn, exc |-> [exc |-> exc, msg |-> msg], spawned |-> n]

\* the names bound at module level in kali_tools.py (imports and defs)
Globals ==
    { "subprocess", "json", "shutil", "re",
      "is_binary_installed", "ping_host", "rustscan_host", "nmapscan_host", "main" }

\* lines 8-19: shutil.which(binary) is not None
is_binary_installed(binary, w) == binary \in w.installed

\* subprocess_run without the timeout
subprocess_runUntimed(run, t) == run

\* subprocess.run(..., timeout=t): the child is killed and TimeoutExpired
\* raised when it runs longer than t seconds
subprocess_run(run, t) ==
    IF run.seconds > t THEN [kind |-> "TimeoutExpired"] ELSE run

\* lines 45-74: the try statement, r the outcome of subprocess.run
ping_try(host, r) ==
    IF r.kind = "completed"
    THEN IF r.returncode = 0
         THEN json_dumps(<< << "host", host >>, << "status", << "reachable" >> >>,
                            << "details", strip(r.stdout) >> >>)
         ELSE json_dumps(<< << "host", host >>, << "status", << "unreachable" >> >>,
                            << "details", strip(r.stdout) >> >>)
    ELSE IF r.kind = "TimeoutExpired"
    THEN json_dumps(<< << "status", << "timeout" >> >>,
                       << "details", << "Ping request timed out." >> >> >>)
    ELSE json_dumps(<< << "status", << "error" >> >>, << "details", << r.msg >> >> >>)

\* lines 22-80
ping_host(host, count, w) ==
    IF is_binary_installed("ping", w)
    THEN Return(ping_try(host, subprocess_run(w.run, 10)), 1)
    ELSE Return(json_dumps(<< << "status", << "tool not installed" >> >>,
                              << "details", << "Ping tool is not installed on the system." >> >> >>), 0)

\* lines 123-128: m the outcome of re.findall(...)[0]; an IndexError is
\* caught by `except Exception` (lines 142-146)
rustscan_ports(r, m) ==
    IF m.found
    THEN json_dumps(<< << "ports", m.group >>, << "status", << "success" >> >>,
                       << "details", r.stdout >> >>)
    ELSE json_dumps(<< << "status", << "error" >> >>,
                       << "details", << "list index out of range" >> >> >>)

\* lines 102-146: the try statement, r the outcome of subprocess.run; a
\* non-zero exit code falls off the end of the function
rustscan_try(host, r) ==
    IF r.kind = "completed"
    THEN IF r.returncode = 0
         THEN IF Contains(r.stderr, "requires root privileges")
              THEN json_dumps(<< << "status", << "error" >> >>,
                                 << "details", << "Error: RustScan requires elevated privileges. Please run as root or with sudo." >> >> >>)
              ELSE IF r.stdout # << >>
              THEN rustscan_ports(r, FirstBracket(r.stdout))
              ELSE json_dumps(<< << "ports", << >> >>, << "status", << "failure" >> >>,
                                 << "details", << "No open ports found on ", host[1] >> >> >>)
         ELSE None
    ELSE IF r.kind = "TimeoutExpired"
    THEN json_dumps(<< << "status", << "timeout" >> >>,
                       << "details", << "Ping request timed out." >> >> >>)
    ELSE json_dumps(<< << "status", << "error" >> >>, << "details", << r.msg >> >> >>)

\* lines 83-152: is_tool_installed is no name of the module
rustscan_host(host, ports, w) ==
    IF "is_tool_installed" \notin Globals
    THEN Throw("NameError", "name 'is_tool_installed' is not defined", 0)
    ELSE IF "rustscan" \in w.installed
    THEN Return(rustscan_try(host, subprocess_run(w.run, 300)), 1)
    ELSE Return(json_dumps(<< << "status", << "tool not installed" >> >>,
                              << "details", << "Rustscan tool is not installed on the system." >> >> >>), 0)

\* lines 180-214: the try statement, r the outcome of subprocess.run; a
\* non-zero exit code falls off the end of the function, and the except
\* clauses return plain strings
nmapscan_try(r) ==
    IF r.kind = "completed"
    THEN IF r.returncode = 0
         THEN IF Contains(r.stderr, "requires root privileges")
              THEN json_dumps(<< << "status", << "error" >> >>,
                                 << "details", << "Error: NMAP scan requires elevated privileges. Please run as root or with sudo." >> >> >>)
              ELSE IF Contains(r.stdout, "Host seems down")
              THEN json_dumps(<< << "status", << "failure" >> >>, << "details", r.stdout >> >>)
              ELSE json_dumps(<< << "status", << "success" >> >>, << "details", r.stdout >> >>)
         ELSE None
    ELSE IF r.kind = "TimeoutExpired"
    THEN Str(<< "Error: Nmap scan timed out. The target may be unresponsive or the scan parameters may be too broad." >>)
    ELSE Str(<< "An unexpected error occurred: ", r.msg >>)

\* lines 155-214: is_tool_installed is no name of the module; the if at line
\* 178 has no else
nmapscan_host(host, ports, w) ==
    IF "is_tool_installed" \notin Globals
    THEN Throw("NameError", "name 'is_tool_installed' is not defined", 0)
    ELSE IF "nmap" \in w.installed
    THEN Return(nmapscan_try(subprocess_run(w.run, 300)), 1)
    ELSE Return(None, 0)

(***************************************************************************)
(* The environment of a tool: which binaries are on the PATH and what the  *)
(* subprocess does (its exit code, output and duration in seconds, or the  *)
(* exception that starting it raises).                                     *)
(***************************************************************************)
MaxReturnCode == 2

Stdouts ==
    { << >>,
      << "Open 10.10.206.119:22", "\n", "10.10.206.119 -> ", "[", "22,80", "]", "\n" >>,
      << " ", "2 packets transmitted, 2 received", "\n" >>,
      << "Note: ", "Host seems down", "\n" >> }

Runs ==
    { [kind |-> "completed", returncode |-> rc, stdout |-> o, stderr |-> e, seconds |-> d] :
        rc \in 0..MaxReturnCode, o \in Stdouts,
        e \in { << >>, << "requires root privileges", "\n" >> }, d \in { 1, 11, 301 } }
    \cup { [kind |-> "raised", exc |-> "PermissionError",
            msg |-> "[Errno 13] Permission denied", seconds |-> 1] }

ToolWorlds ==
    { [kind |-> "host", installed |-> i, run |-> r, spawned |-> 0] :
        i \in { {}, { "ping", "rustscan", "nmap" } }, r \in Runs }

ToolCalls ==
    { [fn |-> f, host |-> h, ports |-> << "1-65535" >>, count |-> 2] :
        f \in { "ping_host", "rustscan_host", "nmapscan_host" },
        h \in { << "10.10.206.119" >>, << "no.such.host" >> } }

(***************************************************************************)
(* _langchain/loaders.py.  The eight loaders have one body: construct the  *)
(* library's loader, load, assert on the result, return it; any Exception  *)
(* is printed and [] returned.  The library is the environment: w says     *)
(* whether the path exists, where the library raises and what load yields. *)
(***************************************************************************)
List(items) == [type |-> "list", items |-> items]

Document == [type |-> "Document", page_content |-> << "text" >>]

\* the text each loader prints before the exception
ErrorLabel(fn) ==
    CASE fn = "dir_loader" -> "Error loading data from directory: "
      [] fn = "file_loader" -> "Error loading data from text file: "
      [] fn = "csv_loader" -> "Error loading data from CSV file: "
      [] fn = "md_loader" -> "Error loading data from Markdown file: "
      [] fn = "json_loader" -> "Error loading data from JSON file: "
      [] fn = "python_loader" -> "Error loading data from text file: "
      [] fn = "pdf_loader" -> "Error loading data from PDF file: "
      [] fn = "web_loader" -> "Error loading data from webpage: "

\* except Exception as e: print(f"Error loading data from ...: {e}"); return []
Handled(fn, msg) ==
    [ret |-> List(<< >>), exc |-> NoError, printed |-> << PrintedMsg(ErrorLabel(fn), msg) >>]

\* Loaded without the assert statements
LoadedUnasserted(fn, data) == [ret |-> data, exc |-> NoError, printed |-> << >>]

\* assert len(data) > 0 (web_loader: data is not None and len(data) > 0);
\* assert isinstance(data[0], Document); return data
Loaded(fn, data) ==
    IF data = None
    THEN IF fn = "web_loader"
         THEN Handled(fn, "")
         ELSE Handled(fn, "object of type 'NoneType' has no len()")
    ELSE IF Len(data.items) = 0 THEN Handled(fn, "")
    ELSE IF data.items[1].type # "Document" THEN Handled(fn, "")
    ELSE [ret |-> data, exc |-> NoError, printed |-> << >>]

\* the try statement of a loader, e.g. file_loader lines 118-139
loader(fn, w) ==
    IF w.raises # "nowhere" THEN Handled(fn, w.msg) ELSE Loaded(fn, w.data)

MaxDocs == 2

Loaders ==
    { "dir_loader", "file_loader", "csv_loader", "md_loader", "json_loader",
      "python_loader", "pdf_loader", "web_loader" }

\* what load() can yield: None, or a list of up to MaxDocs Documents and strs
Loadable ==
    { None } \cup { List(l) : l \in UNION { [1..n -> { Document, Str(<< "text" >>) }] : n \in 0..MaxDocs } }

\* a path that exists loads, or the library raises while constructing or
\* loading; a path that does not exist makes the library raise
LoaderWorlds ==
    { [kind |-> "files", exists |-> TRUE, raises |-> "nowhere", exc |-> "None", msg |-> "", data |-> d] :
        d \in Loadable }
    \cup { [kind |-> "files", exists |-> x, raises |-> at, exc |-> e[1], msg |-> e[2], data |-> None] :
             x \in BOOLEAN, at \in { "constructor", "load" },
             e \in { << "FileNotFoundError", "[Errno 2] No such file or directory: './_data/missing'" >>,
                     << "RuntimeError", "Error loading ./_data/missing" >> } }

LoaderCalls == { [fn |-> f, path |-> << "./_data/missing" >>] : f \in Loaders }

(***************************************************************************)
(* splitters.py, rec_char_splitter.  A str is a sequence of characters; a  *)
(* list holds strs or Documents.                                           *)
(***************************************************************************)
Gives(v) == [ret |-> v, exc |-> NoError]

Raise(exc, msg) == [ret |-> NoReturn, exc |-> [exc |-> exc, msg |-> msg]]

\* isinstance(v[0], t), or the IndexError of v[0]
FirstIs(v, t) ==
    IF v.type = "str"
    THEN IF v.text = << >> THEN Raise("IndexError", "string index out of range")
         ELSE IF t = "str" THEN Gives(None) ELSE Raise("AssertionError", "")
    ELSE IF v.items = << >> THEN Raise("IndexError", "list index out of range")
    ELSE IF v.items[1].type = t THEN Gives(None) ELSE Raise("AssertionError", "")

\* RecursiveCharacterTextSplitter.split_text on a text that holds none of the
\* separators but the last, "": the characters merged into chunks of
\* chunk_size that overlap by chunk_overlap, from character i on
RECURSIVE Chunks(_, _, _, _)
Chunks(t, c, o, i) ==
    IF t = << >> THEN << >>
    ELSE IF i + c - 1 >= Len(t) THEN << SubSeq(t, i, Len(t)) >>
    ELSE << SubSeq(t, i, i + c - 1) >> \o Chunks(t, c, o, i + (IF c > o THEN c - o ELSE 1))

\* create_documents(texts): a Document for every chunk of every text, from
\* text k on; iterating a str yields its characters
RECURSIVE create_documents(_, _, _, _)
create_documents(data, c, o, k) ==
    IF data.type = "str"
    THEN IF k > Len(data.text) THEN << >>
         ELSE << [type |-> "Document", page_content |-> << data.text[k] >>] >>
              \o create_documents(data, c, o, k + 1)
    ELSE IF k > Len(data.items) THEN << >>
    ELSE [j \in 1..Len(Chunks(data.items[k].text, c, o, 1)) |->
            [type |-> "Document", page_content |-> Chunks(data.items[k].text, c, o, 1)[j]]]
         \o create_documents(data, c, o, k + 1)

\* split_documents(documents): create_documents of their page_content
split_documents(data, c, o) ==
    create_documents(List([k \in 1..Len(data.items) |-> Str(data.items[k].page_content)]), c, o, 1)

\* split_text(text): the chunks as strs; a list is no text
split_text(data, c, o) ==
    IF data.type # "str"
    THEN Raise("TypeError", "expected string or bytes-like object, got 'list'")
    ELSE Gives(List([j \in 1..Len(Chunks(data.text, c, o, 1)) |-> Str(Chunks(data.text, c, o, 1)[j])]))

\* assert isinstance(docs[0], Document); return docs, r the outcome of the split
ReturnDocs(r) ==
    IF r.exc # NoError THEN r
    ELSE IF r.ret.items = << >> THEN Raise("IndexError", "list index out of range")
    ELSE IF r.ret.items[1].type # "Document" THEN Raise("AssertionError", "")
    ELSE r

\* lines 161-202: the body of the try statement; the constructor rejects an
\* overlap larger than the chunk size
split_try(data, operations, c, o) ==
    IF o > c
    THEN Raise("ValueError", "Got a larger chunk overlap than chunk size, should be smaller.")
    ELSE IF operations = "create-docs"
    THEN IF FirstIs(data, "str").exc # NoError THEN FirstIs(data, "str")
         ELSE ReturnDocs(Gives(List(create_documents(data, c, o, 1))))
    ELSE IF operations \in { "split-docs", "transform-docs" }
    THEN IF FirstIs(data, "Document").exc # NoError THEN FirstIs(data, "Document")
         ELSE ReturnDocs(Gives(List(split_documents(data, c, o))))
    ELSE IF FirstIs(data, "Document").exc # NoError THEN FirstIs(data, "Document")
    ELSE ReturnDocs(split_text(data, c, o))

\* lines 204-205: except Exception as e: raise Exception(f"Failed to split document.\nError: {e}")
Reraised(r) ==
    IF r.exc = NoError THEN r
    ELSE Raise("Exception", << "Failed to split document.\nError: ", r.exc.msg >>)

\* lines 105-205; the assert on the language is outside the try
rec_char_splitter(data, operations, chunk_size, chunk_overlap, language) ==
    IF language # "None" /\ language \notin { "python", "markdown", "js" }
    THEN Raise("AssertionError", "Unsupported language")
    ELSE Reraised(split_try(data, operations, chunk_size, chunk_overlap))

MaxText == 3

MaxChunk == 2

MaxItems == 1

Texts == { [i \in 1..n |-> IF i % 2 = 1 THEN "a" ELSE "b"] : n \in 0..MaxText }

SplitterData ==
    { Str(t) : t \in Texts }
    \cup { List(l) : l \in UNION { [1..n -> { Str(t) : t \in Texts }] : n \in 0..MaxItems } }
    \cup { List(l) : l \in UNION { [1..n -> { [type |-> "Document", page_content |-> t] : t \in Texts }] :
                                      n \in 0..MaxItems } }

SplitterCalls ==
    { [fn |-> "rec_char_splitter", data |-> d, operations |-> op, chunk_size |-> c,
       chunk_overlap |-> o, language |-> l] :
        d \in SplitterData,
        op \in { "create-docs", "split-text", "split-docs", "transform-docs" },
        c \in 1..MaxChunk, o \in 0..MaxChunk, l \in { "None", "python", "klingon" } }

(***************************************************************************)
(* _langchain/vector_store.py, Init_VS.  An object is its class and its    *)
(* attributes, a function from the names that are set to their values.     *)
(***************************************************************************)
\* line 1: the names after `import`, written without parentheses
import_line_1 == << "InMemoryVectorStore", ",", "FAISS", "," >>

\* the compiler rejects an unparenthesised import list that ends with a comma
Compiles == import_line_1[Len(import_line_1)] # ","

\* lines 22-35
Init_VS_init(embed_inst, vs_type) ==
    [class |-> "Init_VS",
     attrs |-> [n \in { "embed_inst", "vs_type" } |->
                  IF n = "embed_inst" THEN embed_inst ELSE Str(<< vs_type >>)]]

\* self.vs = Store(...); return self.vs
Stored(obj, store, printed) ==
    [ret |-> store, exc |-> NoError, printed |-> printed,
     self |-> [obj EXCEPT !.attrs = [n \in DOMAIN obj.attrs \cup { "vs" } |->
                                       IF n = "vs" THEN store ELSE obj.attrs[n]]]]

Failed(obj, exc, msg, printed) ==
    [ret |-> NoReturn, exc |-> [exc |-> exc, msg |-> msg], printed |-> printed, self |-> obj]

\* the store a constructor of the library makes, or the exception it raises
Constructed(obj, class, embedding, w, printed) ==
    IF w.construct = "raises"
    THEN Failed(obj, "ValueError", "Could not connect to tenant default_tenant", printed)
    ELSE Stored(obj, [type |-> class, embedding |-> embedding], printed)

\* self.embedding_model: __init__ sets embed_inst and vs_type only
WithEmbeddingModel(obj, class, w, printed) ==
    IF "embedding_model" \notin DOMAIN obj.attrs
    THEN Failed(obj, "AttributeError", "'Init_VS' object has no attribute 'embedding_model'", printed)
    ELSE Constructed(obj, class, obj.attrs["embedding_model"], w, printed)

\* lines 54-100: the body of the try statement
Init_VS_try(obj, kwargs, w) ==
    IF obj.attrs["vs_type"] = Str(<< "InMemory" >>)
    THEN Constructed(obj, "InMemoryVectorStore", obj.attrs["embed_inst"], w, << >>)
    ELSE IF obj.attrs["vs_type"] = Str(<< "Chroma" >>)
    THEN Constructed(obj, "Chroma", obj.attrs["embed_inst"], w, << >>)
    ELSE IF obj.attrs["vs_type"] = Str(<< "FAISS" >>)
    THEN WithEmbeddingModel(obj, "FAISS", w, << >>)
    ELSE IF obj.attrs["vs_type"] = Str(<< "Qdrant" >>)
    THEN IF w.collection_exists
         THEN WithEmbeddingModel(obj, "QdrantVectorStore", w,
                  << PrintedMsg("Collection already exists. Moving on.", kwargs.collection_name) >>)
         ELSE WithEmbeddingModel(obj, "QdrantVectorStore", w,
                  << PrintedMsg("Creating collection", kwargs.collection_name) >>)
    ELSE Failed(obj, "ValueError",
                "Invalid Vector Store type. Supported types are 'InMemory', 'Chroma', 'Qdrant', 'FAISS'.",
                << >>)

\* lines 102-103: except Exception as e: raise f"..."; raising a str is a TypeError
Init_VS_except(r) ==
    IF r.exc = NoError THEN r
    ELSE [r EXCEPT !.exc = [exc |-> "TypeError", msg |-> "exceptions must derive from BaseException"]]

\* lines 37-103
Init_VS_call(obj, kwargs, w) == Init_VS_except(Init_VS_try(obj, kwargs, w))

\* import the module, Init_VS(embed_inst, vs_type)(**kwargs)
vector_store(embed_inst, vs_type, kwargs, w) ==
    IF Compiles
    THEN Init_VS_call(Init_VS_init(embed_inst, vs_type), kwargs, w)
    ELSE Failed(NoObject, "SyntaxError",
                "trailing comma not allowed without surrounding parentheses", << >>)

StoreWorlds ==
    { [kind |-> "stores", construct |-> c, collection_exists |-> x] :
        c \in { "ok", "raises" }, x \in BOOLEAN }

StoreCalls ==
    { [fn |-> "Init_VS", embed_inst |-> [type |-> e], vs_type |-> t,
       kwargs |-> [collection_name |-> "test"]] :
        e \in { "GoogleGenerativeAIEmbeddings", "OllamaEmbeddings" },
        t \in { "InMemory", "Chroma", "Qdrant", "FAISS", "Pinecone" } }

(***************************************************************************)
(* _langchain/tools_usage.py, human_approval.  The response is the line    *)
(* read from standard input, a sequence of characters.                     *)
(***************************************************************************)
\* str.lower() without the lowering
lowerUnchanged(s) == s

\* str.lower(): every cased character replaced by its lower case
lower(s) ==
    [i \in 1..Len(s) |->
        CASE s[i] = "Y" -> "y"
          [] s[i] = "E" -> "e"
          [] s[i] = "S" -> "s"
          [] s[i] = "N" -> "n"
          [] OTHER -> s[i]]

\* lines 129-131: "\n\n".join(json.dumps(tool_call, indent=2) for tool_call in
\* msg.tool_calls), from call k on; the args of a call are shown as one text
RECURSIVE tool_strs(_, _)
tool_strs(msg, k) ==
    IF k > Len(msg.tool_calls) THEN << >>
    ELSE (IF k > 1 THEN << "\n\n" >> ELSE << >>)
         \o json_dumps(<< << "name", << msg.tool_calls[k].name >> >>,
                          << "args", << msg.tool_calls[k].args >> >>,
                          << "id", << msg.tool_calls[k].id >> >> >>).text
         \o tool_strs(msg, k + 1)

\* lines 116-139: input() writes the prompt and reads the response
human_approval(msg, w) ==
    IF lower(w.line) \notin { << "y", "e", "s" >>, << "y" >> }
    THEN [ret |-> NoReturn,
          exc |-> [exc |-> "NotApproved",
                   msg |-> << "Tool invocations not approved:\n\n" >> \o tool_strs(msg, 1)],
          printed |-> << PrintedMsg("Do you approve of the following tool invocations", tool_strs(msg, 1)) >>]
    ELSE [ret |-> msg, exc |-> NoError,
          printed |-> << PrintedMsg("Do you approve of the following tool invocations", tool_strs(msg, 1)) >>]

MaxResp == 3

\* the lines typed: up to MaxResp characters
ApprovalWorlds ==
    { [kind |-> "stdin", line |-> l] :
        l \in UNION { [1..n -> { "y", "Y", "e", "E", "s", "S", "n", " " }] : n \in 0..MaxResp } }

ApprovalCalls ==
    { [fn |-> "human_approval", msg |-> [type |-> "AIMessage", tool_calls |-> c]] :
        c \in { << >>,
                << [name |-> "multiply", args |-> "{'a': 3, 'b': 12}", id |-> "call_1"],
                   [name |-> "add", args |-> "{'a': 11, 'b': 49}", id |-> "call_2"] >> } }

(***************************************************************************)
(* OpenAI-agents: _examples/model.py (CustomModelProvider) and             *)
(* examples/agent_use_cases.py (LocalModelProvider).  Both modules read    *)
(* BASE_URL, API_KEY and MODEL_NAME from the environment when imported,    *)
(* an unset variable read as "", and refuse to load when one is empty.     *)
(***************************************************************************)
\* AsyncOpenAI(api_key=API_KEY, base_url=BASE_URL, max_retries=2, timeout=120)
AsyncOpenAI(env) ==
    [type |-> "AsyncOpenAI", api_key |-> env.API_KEY, base_url |-> env.BASE_URL]

\* model.py lines 105-118: model = model_name
CustomModelProvider_get_model(model_name, env) ==
    Gives([type |-> "OpenAIChatCompletionsModel", model |-> model_name,
           openai_client |-> AsyncOpenAI(env)])

\* agent_use_cases.py lines 50-51: model = model_name or MODEL_NAME; None
\* and the empty str are false
LocalModelProvider_get_model(model_name, env) ==
    IF model_name = None \/ model_name = Str(<< >>)
    THEN Gives([type |-> "OpenAIChatCompletionsModel", model |-> Str(env.MODEL_NAME),
                openai_client |-> AsyncOpenAI(env)])
    ELSE Gives([type |-> "OpenAIChatCompletionsModel", model |-> model_name,
                openai_client |-> AsyncOpenAI(env)])

\* model.py lines 33-40, agent_use_cases.py lines 30-37: r the outcome of
\* the call made once the module has loaded
Imported(env, r) ==
    IF env.BASE_URL = << >> \/ env.API_KEY = << >> \/ env.MODEL_NAME = << >>
    THEN Raise("ValueError",
               "Please set EXAMPLE_BASE_URL, EXAMPLE_API_KEY, EXAMPLE_MODEL_NAME via env var or code.")
    ELSE r

EnvWorlds ==
    { [kind |-> "env", BASE_URL |-> b, API_KEY |-> k, MODEL_NAME |-> m] :
        b \in { << >>, << "http://localhost:11434/v1" >> },
        k \in { << >>, << "ollama" >> },
        m \in { << >>, << "llama3.2" >>, << "qwen3" >> } }

ModelCalls ==
    { [fn |-> f, model_name |-> n] :
        f \in { "CustomModelProvider.get_model", "LocalModelProvider.get_model" },
        n \in { None, Str(<< >>), Str(<< "llama3.2" >>), Str(<< "gpt-4o" >>) } }

(***************************************************************************)
(* The functions of the libraries, each called once with arguments and in  *)
(* an environment drawn at the start.                                      *)
(***************************************************************************)
Invocations ==
    (ToolCalls \X ToolWorlds)
    \cup (LoaderCalls \X LoaderWorlds)
    \cup (SplitterCalls \X { NoWorld })
    \cup (StoreCalls \X StoreWorlds)
    \cup (ApprovalCalls \X ApprovalWorlds)
    \cup (ModelCalls \X EnvWorlds)

\* no matrix program runs
NoMatrices ==
    /\ bld = [recip |-> FALSE, fused |-> FALSE]
    /\ matrix = NoArray
    /\ inverse = NoArray
    /\ identity_check = NoArray
    /\ is_identity = "None"
    /\ original = NoArray
    /\ calls = 0

matrixvars == << bld, matrix, inverse, identity_check, is_identity, original, calls >>

InitCalls ==
    /\ NoMatrices
    /\ script = "call"
    /\ pc = "call"
    /\ err = NoError
    /\ out = << >>
    /\ status = "running"
    /\ \E i \in Invocations : call = i[1] /\ world = i[2]
    /\ ret = NoReturn
    /\ self = NoObject

\* the call is about to run
Calling(fn) == At("call", "call") /\ call.fn = fn

\* the call ends: r.ret goes to the caller, or r.exc propagates to it
Ends(r) ==
    /\ ret' = r.ret
    /\ err' = r.exc
    /\ status' = IF r.exc = NoError THEN "returned" ELSE "raised"
    /\ pc' = "exit"
    /\ UNCHANGED << script, call >>
    /\ UNCHANGED matrixvars

\* the call ends having started r.spawned subprocesses
ToolEnds(r) ==
    /\ Ends(r)
    /\ world' = [world EXCEPT !.spawned = r.spawned]
    /\ UNCHANGED << out, self >>

\* kali_tools.py lines 22-80
call_ping_host ==
    /\ Calling("ping_host")
    /\ ToolEnds(ping_host(call.host, call.count, world))

\* kali_tools.py lines 83-152
call_rustscan_host ==
    /\ Calling("rustscan_host")
    /\ ToolEnds(rustscan_host(call.host, call.ports, world))

\* kali_tools.py lines 155-214
call_nmapscan_host ==
    /\ Calling("nmapscan_host")
    /\ ToolEnds(nmapscan_host(call.host, call.ports, world))

\* the call ends having printed r.printed
PrintEnds(r) ==
    /\ Ends(r)
    /\ out' = out \o r.printed
    /\ UNCHANGED << world, self >>

\* _langchain/loaders.py: dir_loader 20-83, file_loader 85-139, csv_loader
\* 141-210, md_loader 212-270, json_loader 272-327, python_loader 329-367,
\* pdf_loader 369-437, web_loader 439-500
call_loader ==
    /\ At("call", "call")
    /\ call.fn \in Loaders
    /\ PrintEnds(loader(call.fn, world))

\* the call ends without printing
PureEnds(r) ==
    /\ Ends(r)
    /\ UNCHANGED << out, world, self >>

\* splitters.py lines 105-205
call_rec_char_splitter ==
    /\ Calling("rec_char_splitter")
    /\ PureEnds(rec_char_splitter(call.data, call.operations, call.chunk_size,
                                  call.chunk_overlap, call.language))

\* the call ends having printed r.printed and left the object as r.self
ObjectEnds(r) ==
    /\ Ends(r)
    /\ out' = out \o r.printed
    /\ self' = r.self
    /\ UNCHANGED world

\* _langchain/vector_store.py lines 1-103
call_Init_VS ==
    /\ Calling("Init_VS")
    /\ ObjectEnds(vector_store(call.embed_inst, call.vs_type, call.kwargs, world))

\* _langchain/tools_usage.py lines 116-139
call_human_approval ==
    /\ Calling("human_approval")
    /\ PrintEnds(human_approval(call.msg, world))

\* _examples/model.py lines 103-118
call_CustomModelProvider_get_model ==
    /\ Calling("CustomModelProvider.get_model")
    /\ PureEnds(Imported(world, CustomModelProvider_get_model(call.model_name, world)))

\* examples/agent_use_cases.py lines 49-52
call_LocalModelProvider_get_model ==
    /\ Calling("LocalModelProvider.get_model")
    /\ PureEnds(Imported(world, LocalModelProvider_get_model(call.model_name, world)))

NextCalls ==
    \/ call_ping_host
    \/ call_rustscan_host
    \/ call_nmapscan_host
    \/ call_loader
    \/ call_rec_char_splitter
    \/ call_Init_VS
    \/ call_human_approval
    \/ call_CustomModelProvider_get_model
    \/ call_LocalModelProvider_get_model

SpecCalls == InitCalls /\ [][NextCalls]_vars

(***************************************************************************)
(* Exact arithmetic for stating the properties: determinant, adjugate and  *)
(* condition number of an integer matrix, and exact products and           *)
(* distances of float64 entries (no rounding anywhere below).              *)
(***************************************************************************)
Abs(n) == IF n < 0 THEN -n ELSE n

Max(a, b) == IF a >= b THEN a ELSE b

\* the sequence s without its element k
Without(s, k) == SubSeq(s, 1, k - 1) \o SubSeq(s, k + 1, Len(s))

RECURSIVE MinorRows(_, _, _)
MinorRows(a, c, i) ==
    IF i > Len(a) THEN << >> ELSE << Without(a[i], c) >> \o MinorRows(a, c, i + 1)

\* the rows a without row r and column c
Minor(a, r, c) == MinorRows(Without(a, r), c, 1)

RECURSIVE Det(_)
RECURSIVE DetSum(_, _)
\* expansion along the first row, from column j on
DetSum(a, j) ==
    IF j > Len(a) THEN 0
    ELSE (IF j % 2 = 1 THEN 1 ELSE -1) * a[1][j] * Det(Minor(a, 1, j)) + DetSum(a, j + 1)

Det(a) == IF a = << >> THEN 1 ELSE DetSum(a, 1)

\* the adjugate: entry (i, j) is the cofactor of (j, i)
Adj(a) ==
    [i \in 1..Len(a) |->
        [j \in 1..Len(a) |-> (IF (i + j) % 2 = 0 THEN 1 ELSE -1) * Det(Minor(a, j, i))]]

RECURSIVE AbsSum(_, _)
\* the sum of |row[j]| over j in 1..n
AbsSum(row, n) == IF n = 0 THEN 0 ELSE Abs(row[n]) + AbsSum(row, n - 1)

RECURSIVE NormInfOf(_, _, _)
\* the largest absolute row sum over the rows 1..i of the n x n matrix a
NormInfOf(a, i, n) ==
    IF i = 0 THEN 0 ELSE Max(AbsSum(a[i], n), NormInfOf(a, i - 1, n))

NormInf(a, n) == NormInfOf(a, n, n)

IsIntSquare(arr) == arr.dtype = "int64" /\ IsSquare(arr) /\ NRows(arr.a) >= 1

Singular(arr) == IsIntSquare(arr) /\ Det(arr.a) = 0

Invertible(arr) == IsIntSquare(arr) /\ Det(arr.a) # 0

\* the largest condition number (infinity norm) called well-conditioned
CondMax == 10 ^ 3

\* ||A|| * ||adj(A)|| <= CondMax * |det(A)|
WellConditioned(arr) ==
    /\ Invertible(arr)
    /\ XLeq(XMul(XOfInt(NormInf(arr.a, NRows(arr.a))),
                 XOfInt(NormInf(Adj(arr.a), NRows(arr.a)))),
            XMul(XOfInt(CondMax), XOfInt(Abs(Det(arr.a)))))

\* the entries of a numeric array as exact numbers
Exact(arr, i, j) == IF arr.dtype = "int64" THEN XOfInt(arr.a[i][j]) ELSE arr.a[i][j]

RECURSIVE XDot(_, _, _, _, _)
\* the exact sum over k in 1..n of x[i][k] * y[k][j]
XDot(x, y, i, j, n) ==
    IF n = 0 THEN XZero
    ELSE XAdd(XDot(x, y, i, j, n - 1), XMul(Exact(x, i, n), Exact(y, n, j)))

\* |x - p / q| <= t / s, for integers p, t >= 0 and q, s > 0
Near(x, p, q, t, s) ==
    XLeq(XMul(XAbs(XSub(XMul(x, XOfInt(q)), XOfInt(p))), XOfInt(s)), XOfInt(t * q))

\* 1 / TolInv is the tolerance 1e-8
TolInv == 10 ^ 8

Delta(i, j) == IF i = j THEN 1 ELSE 0

\* the exact product x * y is the identity within 1e-8 in every entry
ProductIsIdentity(x, y) ==
    \A i \in 1..NRows(x.a) : \A j \in 1..NRows(x.a) :
        Near(XDot(x, y, i, j, NRows(x.a)), Delta(i, j), 1, 1, TolInv)

SameShape(x, y) ==
    /\ NRows(x.a) = NRows(y.a)
    /\ \A i \in 1..NRows(x.a) : Len(x.a[i]) = Len(y.a[i])

\* a call of the inversion has returned to the script or the caller
HasReturned == inverse # NoArray

SingularDiagnostics ==
    { "Matrix inversion failed: {e}",
      "Error: {e}. The matrix is likely singular and cannot be inverted." }

\* a diagnostic of the except clauses is among the printed lines
DiagnosticPrinted == \E k \in 1..Len(out) : out[k].label \in SingularDiagnostics

\* an inverse is among the printed lines
InversePrinted ==
    \E k \in 1..Len(out) :
        out[k].label \in { "Inverse of the Matrix:", "Inverse Matrix:", "Inverse of Matrix:" }

Finished == pc = "exit"

(***************************************************************************)
(* Properties                                                              *)
(***************************************************************************)
\* the inverse returned for the integer matrix arr is an inverse within 1e-8
IsInverseOf(inv, arr) ==
    /\ SameShape(inv, arr)
    /\ ProductIsIdentity(inv, arr)
    /\ ProductIsIdentity(arr, inv)

C2_SingularRejected ==
    Singular(matrix) =>
        /\ ~HasReturned
        /\ ~InversePrinted
        /\ Finished => err = [exc |-> "LinAlgError", msg |-> "Singular matrix"]

\* C3 as stated: in each of the three scripts a singular-matrix error of the
\* inversion is caught and printed as a diagnostic and the run ends normally.
C3_SingularCaught ==
    (Finished /\ err = [exc |-> "LinAlgError", msg |-> "Singular matrix"]) =>
        /\ status = "exited"
        /\ DiagnosticPrinted

\* C5 as stated: an error of the inversion other than singularity propagates
\* to the caller and is not printed as the scripts' singular-matrix diagnostic.
C5_OtherErrorsPropagate ==
    (err # NoError /\ err.msg # "Singular matrix") =>
        /\ ~DiagnosticPrinted
        /\ Finished => status = "traceback"

\* x rounded to four decimal places is p / 10^4
Rounds4(x, p) == Near(x, p, 10 ^ 4, 1, 2 * 10 ^ 4)

\* x is p / q within 1e-8
Is(x, p, q) == Near(x, p, q, 1, TolInv)

D904Returned == script = "tmp_code_d904" /\ matrix = matrix_example /\ HasReturned

\* C6 as stated: calculate_inverse([[4, 7], [3, 6]]) is
\* [[0.6667, -0.7778], [-0.3333, 0.4444]] to four decimal places.
C6_AsStated ==
    D904Returned =>
        /\ Rounds4(inverse.a[1][1], 6667) /\ Rounds4(inverse.a[1][2], -7778)
        /\ Rounds4(inverse.a[2][1], -3333) /\ Rounds4(inverse.a[2][2], 4444)

\* C6 amended: calculate_inverse([[4, 7], [3, 6]]) is
\* [[2.0000, -2.3333], [-1.0000, 1.3333]] to four decimal places.
C6_Amended ==
    D904Returned =>
        /\ Rounds4(inverse.a[1][1], 20000) /\ Rounds4(inverse.a[1][2], -23333)
        /\ Rounds4(inverse.a[2][1], -10000) /\ Rounds4(inverse.a[2][2], 13333)

\* C6 witness: tmp_code_d904 has printed the inverse of its own matrix
C6_Witness == D904Returned /\ Finished /\ InversePrinted

\* C7: inverting [[1, 2], [3, 4]] gives [[-2, 1], [1.5, -0.5]], the product
\* original x inverse the script computes is the 2 x 2 identity, both within
\* 1e-8, and is_identity is True.
C7_Example ==
    (script = "tmp_code_9387" /\ matrix = example_matrix) =>
        /\ HasReturned =>
              /\ Is(inverse.a[1][1], -2, 1) /\ Is(inverse.a[1][2], 1, 1)
              /\ Is(inverse.a[2][1], 3, 2) /\ Is(inverse.a[2][2], -1, 2)
        /\ identity_check # NoArray =>
              \A i \in 1..2 : \A j \in 1..2 : Is(identity_check.a[i][j], Delta(i, j), 1)
        /\ is_identity # "None" => is_identity = "True"
        /\ Finished => status = "exited" /\ is_identity = "True"

\* C7 witness: tmp_code_9387 has run to its end on its own matrix
C7_Witness ==
    /\ script = "tmp_code_9387" /\ matrix = example_matrix
    /\ Finished /\ is_identity = "True" /\ Len(out) = 4

\* C8: inverting [[3, -4], [1, 5]] gives [[5/19, 4/19], [-1/19, 3/19]] within
\* 1e-8, which is [[0.2632, 0.2105], [-0.0526, 0.1579]] to four decimal places.
C8_Example ==
    (script = "inv" /\ matrix = inv_py_matrix) =>
        /\ Finished => HasReturned /\ status = "exited"
        /\ HasReturned =>
              /\ Is(inverse.a[1][1], 5, 19) /\ Is(inverse.a[1][2], 4, 19)
              /\ Is(inverse.a[2][1], -1, 19) /\ Is(inverse.a[2][2], 3, 19)
              /\ Rounds4(inverse.a[1][1], 2632) /\ Rounds4(inverse.a[1][2], 2105)
              /\ Rounds4(inverse.a[2][1], -526) /\ Rounds4(inverse.a[2][2], 1579)

\* C8 witness: inv.py has printed the inverse of its own matrix
C8_Witness ==
    /\ script = "inv" /\ matrix = inv_py_matrix
    /\ Finished /\ InversePrinted

\* the verification step has produced its flag
Verified == is_identity # "None"

\* entry (i, j) of the computed product is within t * 1e-8 of the identity's
ProductWithin(i, j, t) == Near(identity_check.a[i][j], Delta(i, j), 1, t, TolInv)

CloseTo(x, arr) ==
    /\ SameShape(x, arr)
    /\ \A i \in 1..NRows(arr.a) : \A j \in 1..NRows(arr.a) :
          Is(x.a[i][j], arr.a[i][j], 1)

\* C9: for every well-conditioned invertible square matrix A, invert(A) is
\* itself invertible (inverting it raises nothing) and invert(invert(A)) is A
\* within 1e-8.
C9_RoundTrip ==
    WellConditioned(original) =>
        /\ status # "traceback"
        /\ (calls = 2 /\ HasReturned) => CloseTo(inverse, original)

\* C9 witness: the inverse of a well-conditioned 2 x 2 matrix with non-zero
\* off-diagonal entries was inverted again
C9_Witness ==
    /\ WellConditioned(original)
    /\ NRows(original.a) = 2
    /\ original.a[1][2] # 0
    /\ calls = 2
    /\ pc = "returned"

OneByOne(arr) == IsIntSquare(arr) /\ NRows(arr.a) = 1

\* one unit in the last place of a float64 in [1, 2)
Ulp == [neg |-> FALSE, m |-> << 1 >>, e |-> 1 - Prec]

\* C10: for every k # 0 the 1 x 1 matrix [[k]] inverts to [[1/k]] (the float64
\* next to 1/k), and [[0]] is rejected as singular.
C10_OneByOne ==
    (OneByOne(original) /\ calls >= 1) =>
        IF original.a[1][1] = 0
        THEN /\ status = "traceback"
             /\ err = [exc |-> "LinAlgError", msg |-> "Singular matrix"]
             /\ ~HasReturned
        ELSE /\ status = "running"
             /\ calls = 1 =>
                   /\ SameShape(inverse, original)
                   /\ XLeq(XAbs(XSub(XMul(inverse.a[1][1], XOfInt(original.a[1][1])),
                                     XOfInt(1))), Ulp)

\* C10 witness: [[3]] has been inverted
C10_Witness ==
    /\ original = IntArray(<< << 3 >> >>)
    /\ calls = 1
    /\ pc = "returned"
    /\ inverse # NoArray

InverseLabels == { "Inverse of the Matrix:", "Inverse Matrix:", "Inverse of Matrix:" }

\* line k of the output is the inverse or the diagnostic of an except clause
IsResultLine(k) == out[k].label \in InverseLabels \cup SingularDiagnostics

\* C11 as stated: every run of every script prints the original matrix and,
\* after it, exactly one of the computed inverse and the error message; the
\* original is printed on the success path and on the failure path.  (Stated
\* of the runs on a square numeric matrix that end normally.)
C11_OriginalThenResult ==
    (Finished /\ status = "exited" /\ IsIntSquare(matrix)) =>
        \E k \in 1..Len(out) :
            /\ out[k] = Printed("Original Matrix:", matrix)
            /\ \E j \in (k + 1)..Len(out) :
                  /\ IsResultLine(j)
                  /\ \A i \in 1..Len(out) : IsResultLine(i) => i = j

UnescapePiece(p) == IF p = "\\n" THEN "\n" ELSE IF p = "\\\"" THEN "\"" ELSE p

LoadStr(t, i, j) == [k \in 1..(j - i - 1) |-> UnescapePiece(t[i + k])]

NotJson == [ok |-> FALSE, items |-> << >>]

\* the items from the opening quote at i on, after the items acc
RECURSIVE LoadItems(_, _, _)
LoadItems(t, i, acc) ==
    LET kq == IndexFrom(t, "\"", i + 1)
        vq == IndexFrom(t, "\"", kq + 3)
        item == << LoadStr(t, i, kq), LoadStr(t, kq + 2, vq) >>
    IN  IF \/ i > Len(t)
           \/ t[i] # "\""
           \/ kq + 2 > Len(t)
           \/ t[kq + 1] # ":"
           \/ t[kq + 2] # "\""
           \/ vq + 1 > Len(t)
        THEN NotJson
        ELSE IF t[vq + 1] = ","
        THEN LoadItems(t, vq + 2, Append(acc, item))
        ELSE IF t[vq + 1] = "}" /\ vq + 1 = Len(t)
        THEN [ok |-> TRUE, items |-> Append(acc, item)]
        ELSE NotJson

json_loads(t) ==
    IF Len(t) < 2 \/ t[1] # "{" THEN NotJson
    ELSE IF t = << "{", "}" >> THEN [ok |-> TRUE, items |-> << >>]
    ELSE LoadItems(t, 2, << >>)

\* v is a str holding a JSON object that has the key
HasKey(v, key) ==
    /\ v.type = "str"
    /\ json_loads(v.text).ok
    /\ \E k \in 1..Len(json_loads(v.text).items) : json_loads(v.text).items[k][1] = << key >>

\* v is a str holding a JSON object whose value under the key is val
HasItem(v, key, val) ==
    /\ v.type = "str"
    /\ json_loads(v.text).ok
    /\ \E k \in 1..Len(json_loads(v.text).items) :
          json_loads(v.text).items[k] = << << key >>, val >>

Called(fn) == script = "call" /\ call.fn = fn /\ status # "running"

\* C13: every call of rustscan_host returns a str holding a JSON object with
\* "status" and "details" (RustScan installed or not, any exit code and
\* output, timeout or exception); it never returns None, never raises.
C13_AlwaysJson ==
    Called("rustscan_host") =>
        /\ status = "returned"
        /\ HasKey(ret, "status")
        /\ HasKey(ret, "details")

\* C14: every call of nmapscan_host returns a str holding a JSON object with
\* "status" and "details", also on a timeout, another exception, a non-zero
\* exit code, and when Nmap is not installed.
C14_AlwaysJson ==
    Called("nmapscan_host") =>
        /\ status = "returned"
        /\ HasKey(ret, "status")
        /\ HasKey(ret, "details")

\* the status the ping of this environment is to report
PingStatus(w) ==
    IF "ping" \notin w.installed THEN "tool not installed"
    ELSE IF w.run.seconds > 10 THEN "timeout"
    ELSE IF w.run.kind # "completed" THEN "error"
    ELSE IF w.run.returncode = 0 THEN "reachable"
    ELSE "unreachable"

GaveUp ==
    /\ ret = List(<< >>)
    /\ Len(out) = 1
    /\ out[1].label = ErrorLabel(call.fn)

\* the load of this environment fails: the library raises, or it yields
\* nothing, or no list
LoadFails(w) == w.raises # "nowhere" \/ w.data = None \/ w.data = List(<< >>)

C17_RaisesFileNotFound ==
    ( /\ script = "call"
      /\ call.fn \in { "file_loader", "csv_loader", "md_loader", "json_loader", "python_loader" }
      /\ status # "running"
      /\ ~world.exists ) =>
        /\ status = "raised"
        /\ err.exc = "FileNotFoundError"

\* C18: rec_char_splitter with operations = "split-text" and a single
\* non-empty str as data returns a list of strs, each no longer than the chunk size and each
\* a piece of the data.
C18_SplitsText ==
    ( /\ Called("rec_char_splitter")
      /\ call.operations = "split-text"
      /\ call.data.type = "str"
      /\ call.data.text # << >>
      /\ call.language = "None"
      /\ call.chunk_overlap <= call.chunk_size ) =>
        /\ status = "returned"
        /\ ret.type = "list"
        /\ \A k \in 1..Len(ret.items) :
              /\ ret.items[k].type = "str"
              /\ Len(ret.items[k].text) <= call.chunk_size
              /\ \E i \in 1..Len(call.data.text) :
                    ret.items[k].text = SubSeq(call.data.text, i, i + Len(ret.items[k].text) - 1)

\* C19: Init_VS.__call__ raises ValueError when vs_type is none of
\* "InMemory", "Chroma", "Qdrant", "FAISS"; for each of these four, when the
\* library makes the store, it returns the new store, which is then also
\* self.vs.
C19_StoreOrValueError ==
    Called("Init_VS") =>
        IF call.vs_type \notin { "InMemory", "Chroma", "Qdrant", "FAISS" }
        THEN status = "raised" /\ err.exc = "ValueError"
        ELSE world.construct = "ok" =>
                /\ status = "returned"
                /\ ret.embedding = call.embed_inst
                /\ self # NoObject
                /\ "vs" \in DOMAIN self.attrs
                /\ self.attrs["vs"] = ret

\* the responses that are "y" or "yes" in some mix of upper and lower case
Approvals ==
    { << a >> : a \in { "y", "Y" } }
    \cup { << a, b, c >> : a \in { "y", "Y" }, b \in { "e", "E" }, c \in { "s", "S" } }

\* C20: human_approval returns the message it was given, unchanged, exactly
\* when the response is "y" or "yes" in any mix of cases; every other
\* response, the empty one and those with spaces around included, raises
\* NotApproved and nothing is returned.
C20_ApprovedIffYes ==
    Called("human_approval") =>
        IF world.line \in Approvals
        THEN status = "returned" /\ ret = call.msg
        ELSE status = "raised" /\ err.exc = "NotApproved" /\ ret = NoReturn

\* an approval typed in mixed case, and the message came back
C20_Witness ==
    /\ Called("human_approval")
    /\ world.line = << "Y", "e", "S" >>
    /\ call.msg.tool_calls # << >>
    /\ status = "returned"
    /\ ret = call.msg

\* C21: get_model of CustomModelProvider and of LocalModelProvider returns a
\* model bound to the module's client; get_model(None) gives it the model
\* name MODEL_NAME, get_model(m) for a name m gives it m.
C21_FallsBackToModelName ==
    ( /\ script = "call"
      /\ call.fn \in { "CustomModelProvider.get_model", "LocalModelProvider.get_model" }
      /\ status = "returned" ) =>
        /\ ret.openai_client = AsyncOpenAI(world)
        /\ call.model_name = None => ret.model = Str(world.MODEL_NAME)
        /\ (call.model_name # None /\ call.model_name # Str(<< >>)) => ret.model = call.model_name

=============================================================================
